---------------------------- MODULE Spec2Model ----------------------------
(***************************************************************************)
(* Kraz chat client: the room access controller and the realtime message   *)
(* synchronizer, in the two variants the repository holds.                 *)
(*                                                                         *)
(*   - the mock variant: src/services/mockBackend.ts (AuthService,         *)
(*     RoomService, ChatService over in-memory arrays) and the App         *)
(*     component of src/App.tsx lines 606-1279 that drives it;             *)
(*   - the hosted variant: the App component of src/App.tsx lines 1-605    *)
(*     over the hosted datastore (tables rooms and messages, a change      *)
(*     feed, asynchronous snapshot fetches).                               *)
(*                                                                         *)
(* Strings that the code converts (trim, toUpperCase) are sequences of     *)
(* one-character strings, so that the conversions are computed.  Ids are   *)
(* opaque strings: an id typed into a form is given already trimmed.       *)
(***************************************************************************)
EXTENDS Integers, Sequences, FiniteSets, TLC

\* ------------------------------------------------------------- bounds
MaxRooms == 2
MaxSends == 2
MaxKeyLen == 1
MaxFetches == 2
\* the unsubscribe functions subscribe returns in a run, and the times one is
\* called
MaxSubscribes == 3
MaxCalls == 2

\* ------------------------------------------------------------ strings
LowerChars == {"a"}
UpperChars == {"A"}
Chars == LowerChars \cup UpperChars
RawChars == Chars \cup {" "}

SeqsUpTo(S, n) == UNION {[1..k -> S] : k \in 0..n}

\* The keys, and what a user can type into a key field: a key, possibly with a
\* space before or after it.
Keys == SeqsUpTo(Chars, MaxKeyLen)
RawKeys == Keys \cup {<<" ">> \o k : k \in Keys} \cup {k \o <<" ">> : k \in Keys}
\* What generateKey can return: base-36 digits, upper-cased.
GeneratedKeys == SeqsUpTo(UpperChars, MaxKeyLen)

toUpperCaseChar(c) == IF c = "a" THEN "A" ELSE c

toUpperCase(s) == [i \in 1..Len(s) |-> toUpperCaseChar(s[i])]

RECURSIVE trimStart(_)
trimStart(s) == IF s # <<>> /\ Head(s) = " " THEN trimStart(Tail(s)) ELSE s

RECURSIVE trimEnd(_)
trimEnd(s) ==
  IF s # <<>> /\ s[Len(s)] = " " THEN trimEnd(SubSeq(s, 1, Len(s) - 1)) ELSE s

\* A trim that strips nothing.
trim_identity(s) == s

trim(s) == trimEnd(trimStart(s))

\* String.prototype.toLowerCase, startsWith, indexOf (1-based, 0 when the
\* pattern does not occur) and replace with a string pattern, which replaces
\* the first occurrence only.
toLowerCaseChar(c) ==
  IF c = "A" THEN "a" ELSE IF c = "I" THEN "i" ELSE IF c = "P" THEN "p" ELSE c

toLowerCase(s) == [i \in 1..Len(s) |-> toLowerCaseChar(s[i])]

startsWith(s, p) == Len(s) >= Len(p) /\ SubSeq(s, 1, Len(p)) = p

indexOf(s, p) ==
  LET at == {i \in 1..(Len(s) - Len(p) + 1) : SubSeq(s, i, i + Len(p) - 1) = p}
  IN  IF at = {} THEN 0 ELSE CHOOSE i \in at : \A j \in at : i <= j

replace(s, p, r) ==
  LET i == indexOf(s, p)
  IN  IF i = 0 THEN s
      ELSE SubSeq(s, 1, i - 1) \o r \o SubSeq(s, i + Len(p), Len(s))

\* Texts: a text the code looks into is the sequence of its characters, a
\* fixed text the code only passes on is a sequence of one element.
Hello == <<"h", "i">>
Blank == <<" ">>
AiPing == <<"/", "a", "i", " ", "p">>
AiPingUpper == <<"/", "A", "I", " ", "p">>

\* ------------------------------------------------------------- values
UserIds == {"alice", "bob"}
Passwords == {"longpass1"}
RoomIds == {"RM-1", "RM-2"}
RoomNames == {<<"ops">>}
MsgIds == {"m1", "m2"}
\* JavaScript's null and undefined; both are falsy, and null # undefined.
Null == "null"
Undefined == "undefined"
NoKey == <<>>
SYSTEM == "SYSTEM"
AI_CORE == "AI_CORE"

\* ViewState, src/types.ts
AUTH == "AUTH"
DASHBOARD == "DASHBOARD"
PUBLIC_CHAT == "PUBLIC_CHAT"
PRIVATE_ROOM == "PRIVATE_ROOM"
PROFILE == "PROFILE"

VARIABLES
  \* mockBackend.ts module state
  users, rooms, allMessages, listeners,
  \* the unsubscribe functions ChatService.subscribe has returned: the callback
  \* each closes over, and how many times it has been called
  unsubscribes,
  \* App state, mock variant
  view, user, activeRoom, activeRoomRef, publicMessages, privateMessages,
  joinError, profileMessage, authError, isAiThinking, aiCalls,
  \* the number of messages sent so far: the clock created_at is read from
  clock,
  \* the operation the last step performed, its arguments and its outcome
  last,
  \* App state, hosted variant (rooms and allMessages are then the rooms and
  \* messages tables of the database): the Live View, the realtime channel of
  \* the current effect, the queries of fetchMessages still in flight, and
  \* the events the database has emitted for the channel
  messages, channel, fetches, feed,
  \* the ref that makes the auth listener ignore session events during a
  \* registration, and the await the hosted handleAuth is suspended at
  isProcessingRegistration, authPc

backendVars == <<users, rooms, allMessages, listeners, unsubscribes>>
appVars == <<view, user, activeRoom, activeRoomRef, publicMessages,
             privateMessages, joinError, profileMessage, authError,
             isAiThinking, aiCalls>>
authVars == <<isProcessingRegistration, authPc>>
hostedVars == <<messages, channel, fetches, feed, authVars>>
vars == <<backendVars, appVars, clock, last, hostedVars>>

\* What a step did: the operation, the ids it was called with, what it
\* returned or threw, and the events it handed to notifyListeners, in order.
\* listeners.forEach(l => l(event)), for each event in turn: the callbacks
\* called with it, in order.
RECURSIVE forEach(_)
forEach(events) ==
  IF events = <<>> THEN <<>> ELSE <<listeners>> \o forEach(Tail(events))

OpE(op, args, res, events) ==
  [op |-> op, args |-> args, res |-> res, events |-> events,
   calls |-> forEach(events)]

Op(op, args, res) == OpE(op, args, res, <<>>)

\* ------------------------------------------------- JavaScript helpers
\* obj.f: undefined when the object has no property f.
Prop(obj, f) == IF f \in DOMAIN obj THEN obj[f] ELSE Undefined

Falsy(v) == v \in {Null, Undefined, ""}

\* Array.prototype.findIndex, 1-based; 0 when no element satisfies P.
FindIndex(arr, P(_)) ==
  IF \E i \in 1..Len(arr) : P(arr[i])
  THEN CHOOSE i \in 1..Len(arr) :
         P(arr[i]) /\ \A j \in 1..(i - 1) : ~P(arr[j])
  ELSE 0

\* Array.prototype.filter
Filter(arr, P(_)) == SelectSeq(arr, P)

\* Array.prototype.splice(index, 1), 1-based
Splice1(arr, i) == SubSeq(arr, 1, i - 1) \o SubSeq(arr, i + 1, Len(arr))

Ids(arr) == {arr[i].id : i \in 1..Len(arr)}

\* --------------------------------------------------------- RoomService
Room(id, key, name, creatorId) ==
  [id |-> id, key |-> key, name |-> name, creator_id |-> creatorId]

\* rooms.find(r => r.id === roomId): the place of the first room with that id,
\* 0 for undefined
findRoom(roomId) == FindIndex(rooms, LAMBDA r : r.id = roomId)

getRoom(roomId) == findRoom(roomId)

getUserRooms(userId) == Filter(rooms, LAMBDA r : r.creator_id = userId)

validateRoomAccess(roomId, key) ==
  LET room == findRoom(roomId)
  IN  IF room # 0 THEN rooms[room].key = toUpperCase(key) ELSE FALSE

\* The outcome of updateRoomKey: what it throws, or "OK", and the rooms after.
updateRoomKey_noOwnerCheck(roomId, userId, newKey) ==
  LET i == findRoom(roomId)
  IN  IF i = 0 THEN [res |-> "ROOM_NOT_FOUND", rooms |-> rooms]
      ELSE [res |-> "OK", rooms |-> [rooms EXCEPT ![i].key = newKey]]

updateRoomKey_everyRoom(roomId, userId, newKey) ==
  LET i == findRoom(roomId)
  IN  IF i = 0 THEN [res |-> "ROOM_NOT_FOUND", rooms |-> rooms]
      ELSE IF rooms[i].creator_id # userId
           THEN [res |-> "UNAUTHORIZED", rooms |-> rooms]
           ELSE [res |-> "OK",
                 rooms |-> [j \in 1..Len(rooms) |->
                              [rooms[j] EXCEPT !.key = newKey]]]

\* A rotation that creates the room when the registry does not hold it.
updateRoomKey_upsert(roomId, userId, newKey) ==
  LET i == findRoom(roomId)
  IN  IF i = 0
      THEN [res |-> "OK",
            rooms |-> Append(rooms, Room(roomId, newKey, <<"ops">>, userId))]
      ELSE IF rooms[i].creator_id # userId
           THEN [res |-> "UNAUTHORIZED", rooms |-> rooms]
           ELSE [res |-> "OK", rooms |-> [rooms EXCEPT ![i].key = newKey]]

\* A rotation that issues the room anew: the room gets the key and another id.
updateRoomKey_reissued(roomId, userId, newKey) ==
  LET i == findRoom(roomId)
  IN  IF i = 0 THEN [res |-> "ROOM_NOT_FOUND", rooms |-> rooms]
      ELSE IF rooms[i].creator_id # userId
           THEN [res |-> "UNAUTHORIZED", rooms |-> rooms]
           ELSE [res |-> "OK",
                 rooms |-> [rooms EXCEPT ![i] =
                              Room("RM-2", newKey, @.name, @.creator_id)]]

updateRoomKey(roomId, userId, newKey) ==
  LET i == findRoom(roomId)
  IN  IF i = 0 THEN [res |-> "ROOM_NOT_FOUND", rooms |-> rooms]
      ELSE IF rooms[i].creator_id # userId
           THEN [res |-> "UNAUTHORIZED", rooms |-> rooms]
           ELSE [res |-> "OK", rooms |-> [rooms EXCEPT ![i].key = newKey]]

\* createRoom pushes the new room; nothing compares its id with the stored ones.
createRoom(creatorId, name, id, key) ==
  Append(rooms, Room(id, key, name, creatorId))

\* --------------------------------------------------------- AuthService
\* A User is kept as its id and password.  isOnline and activityLogs are
\* written by register, login and logout and read by nothing.
\* String.prototype.toLowerCase on a user id
toLowerCaseId(u) == IF u = "Alice" THEN "alice" ELSE IF u = "Bob" THEN "bob" ELSE u

passwordLength(pw) ==
  CASE pw = "" -> 0
    [] pw = "short" -> 5
    [] OTHER -> 9

\* find with the ids compared as written
findUser_exact(userId) == FindIndex(users, LAMBDA u : u.id = userId)

findUser(userId) ==
  FindIndex(users, LAMBDA u : toLowerCaseId(u.id) = toLowerCaseId(userId))

\* register: what it throws or "OK", the users after, and the User returned
register(userId, password) ==
  IF findUser(userId) # 0
  THEN [res |-> "USER_ID_TAKEN", users |-> users, user |-> Null]
  ELSE [res |-> "OK",
        users |-> Append(users, [id |-> userId, password |-> password]),
        user |-> userId]

login(userId, password) ==
  LET i == findUser(userId)
  IN  IF i = 0 THEN [res |-> "USER_NOT_FOUND", users |-> users, user |-> Null]
      ELSE IF users[i].password # password
           THEN [res |-> "INVALID_PASSWORD", users |-> users, user |-> Null]
           ELSE [res |-> "OK", users |-> users, user |-> users[i].id]

\* changePassword without the comparison of oldPass with the stored password.
changePassword_noOldCheck(userId, oldPass, newPass) ==
  LET i == FindIndex(users, LAMBDA u : u.id = userId)
  IN  IF i = 0 THEN [res |-> "USER_NOT_FOUND", users |-> users, user |-> Null]
      ELSE [res |-> "OK", users |-> [users EXCEPT ![i].password = newPass],
            user |-> users[i].id]

\* changePassword finds the account by its exact id, compares oldPass with the
\* stored password and stores newPass; newPass is not looked at.
changePassword(userId, oldPass, newPass) ==
  LET i == FindIndex(users, LAMBDA u : u.id = userId)
  IN  IF i = 0 THEN [res |-> "USER_NOT_FOUND", users |-> users, user |-> Null]
      ELSE IF users[i].password # oldPass
           THEN [res |-> "INVALID_OLD_PASSWORD", users |-> users, user |-> Null]
           ELSE [res |-> "OK",
                 users |-> [users EXCEPT ![i].password = newPass],
                 user |-> users[i].id]

\* logout only writes the account's isOnline flag and activity log
logout(userId) == users

\* --------------------------------------------------------- ChatService
\* A Message of src/types.ts as mockBackend.ts builds it.  username always
\* equals user_id here (register sets username to the id) and is left out.
Message(id, userId, roomId, content, isAi, isSystem, createdAt) ==
  [id |-> id, user_id |-> userId, room_id |-> roomId, content |-> content,
   is_ai |-> isAi, isSystem |-> isSystem, created_at |-> createdAt]

InitialMessage ==
  Message("sys-1", SYSTEM, Null, <<"SYSTEM INITIALIZED. PUBLIC CHANNEL OPEN.">>,
          FALSE, TRUE, 0)

getPublicMessages == Filter(allMessages, LAMBDA m : Falsy(m.room_id))

getRoomMessages(roomId) == Filter(allMessages, LAMBDA m : m.room_id = roomId)

NewMessageEvent(msg) == [type |-> "NEW_MESSAGE", message |-> msg]

DeleteMessageEvent(messageId, roomId) ==
  [type |-> "DELETE_MESSAGE", messageId |-> messageId, roomId |-> roomId]

\* deleteMessage: what it throws, "OK" or "NOT_FOUND" (the silent return), the
\* messages after, and the events handed to notifyListeners.
deleteMessage_blank(messageId, userId) ==
  LET index == FindIndex(allMessages, LAMBDA m : m.id = messageId)
  IN  IF index = 0
      THEN [res |-> "NOT_FOUND", msgs |-> allMessages, events |-> <<>>]
      ELSE IF allMessages[index].user_id # userId
           THEN [res |-> "UNAUTHORIZED_DELETE", msgs |-> allMessages,
                 events |-> <<>>]
           ELSE [res |-> "OK",
                 msgs |-> [allMessages EXCEPT ![index].content = <<>>],
                 events |-> <<DeleteMessageEvent(messageId,
                                                 allMessages[index].room_id)>>]

deleteMessage_notifyMissing(messageId, userId) ==
  LET index == FindIndex(allMessages, LAMBDA m : m.id = messageId)
  IN  IF index = 0
      THEN [res |-> "NOT_FOUND", msgs |-> allMessages,
            events |-> <<DeleteMessageEvent(messageId, Null)>>]
      ELSE IF allMessages[index].user_id # userId
           THEN [res |-> "UNAUTHORIZED_DELETE", msgs |-> allMessages,
                 events |-> <<>>]
           ELSE [res |-> "OK", msgs |-> Splice1(allMessages, index),
                 events |-> <<DeleteMessageEvent(messageId,
                                                 allMessages[index].room_id)>>]

deleteMessage(messageId, userId) ==
  LET index == FindIndex(allMessages, LAMBDA m : m.id = messageId)
  IN  IF index = 0
      THEN [res |-> "NOT_FOUND", msgs |-> allMessages, events |-> <<>>]
      ELSE IF allMessages[index].user_id # userId
           THEN [res |-> "UNAUTHORIZED_DELETE", msgs |-> allMessages,
                 events |-> <<>>]
           ELSE [res |-> "OK", msgs |-> Splice1(allMessages, index),
                 events |-> <<DeleteMessageEvent(messageId,
                                                 allMessages[index].room_id)>>]

\* ------------------------------------- App, mock variant: subscription
\* The callback App passes to ChatService.subscribe, applied to the two message
\* lists; ref is activeRoomRef.current.  It reads msg.roomId, a property the
\* messages of mockBackend.ts do not have (they carry room_id).
appCallback(event, ref, lists) ==
  IF event.type = "NEW_MESSAGE"
  THEN LET msg == event.message
       IN  IF Falsy(Prop(msg, "roomId"))
           THEN [lists EXCEPT !.pub = Append(@, msg)]
           ELSE IF ref = Prop(msg, "roomId")
                THEN [lists EXCEPT !.priv = Append(@, msg)]
                ELSE lists
  ELSE IF Falsy(event.roomId)
       THEN [lists EXCEPT
               !.pub = Filter(@, LAMBDA m : m.id # event.messageId)]
       ELSE IF ref = event.roomId
            THEN [lists EXCEPT
                    !.priv = Filter(@, LAMBDA m : m.id # event.messageId)]
            ELSE lists

\* notifyListeners: every registered listener is called with the event, in
\* registration order.  "app" is the callback of the App component.
RECURSIVE notifyListeners(_, _, _, _)
notifyListeners(ls, event, ref, lists) ==
  IF ls = <<>> THEN lists
  ELSE notifyListeners(Tail(ls), event, ref,
         IF Head(ls) = "app" THEN appCallback(event, ref, lists) ELSE lists)

\* The lists after the events of one service call have been delivered.
RECURSIVE deliver(_, _, _)
deliver(events, ref, lists) ==
  IF events = <<>> THEN lists
  ELSE deliver(Tail(events), ref,
               notifyListeners(listeners, Head(events), ref, lists))

activeRoomId == IF activeRoom = 0 THEN Null ELSE rooms[activeRoom].id

\* No channel is subscribed.
NoChannel == [open |-> FALSE, view |-> AUTH, activeRoom |-> 0]

\* ---------------------------------------------------------------- Init
\* The module state of mockBackend.ts as loaded, and the App component after
\* its first render and mount effects (lines 656-684: the ref is synced, the
\* public messages are read, the callback is subscribed).
Init ==
  /\ users = <<>>
  /\ rooms = <<>>
  /\ allMessages = <<InitialMessage>>
  /\ listeners = <<"app">>
  /\ unsubscribes = <<[callback |-> "app", calls |-> 0]>>
  /\ view = AUTH
  /\ user = Null
  /\ activeRoom = 0
  /\ activeRoomRef = Null
  /\ publicMessages = <<InitialMessage>>
  /\ privateMessages = <<>>
  /\ joinError = ""
  /\ profileMessage = ""
  /\ authError = ""
  /\ isAiThinking = FALSE
  /\ aiCalls = <<>>
  /\ clock = 0
  /\ last = Op("init", <<>>, "OK")
  /\ messages = <<>>
  /\ channel = NoChannel
  /\ fetches = <<>>
  /\ feed = <<>>
  /\ isProcessingRegistration = FALSE
  /\ authPc = "idle"

\* ------------------------------------------ App, mock variant: handlers
\* handleAuth; isRegistering is the tab the form is on.
handleAuth(userIdInput, passwordInput, isRegistering) ==
  /\ view = AUTH
  /\ LET out == IF isRegistering THEN register(userIdInput, passwordInput)
                ELSE login(userIdInput, passwordInput)
         err == IF userIdInput = "" \/ passwordInput = ""
                THEN "CREDENTIALS_REQUIRED"
                ELSE IF isRegistering /\ passwordLength(passwordInput) < 8
                     THEN "PASSWORD MUST BE AT LEAST 8 CHARACTERS"
                     ELSE IF out.res # "OK" THEN out.res ELSE ""
     IN  /\ authError' = err
         /\ IF err = ""
            THEN /\ users' = out.users
                 /\ user' = out.user
                 /\ view' = DASHBOARD
            ELSE UNCHANGED <<users, user, view>>
         /\ last' = Op("handleAuth", <<>>, IF err = "" THEN "OK" ELSE err)
  /\ UNCHANGED <<rooms, allMessages, listeners, unsubscribes,
                 activeRoom, activeRoomRef,
                 publicMessages, privateMessages, joinError, profileMessage,
                 isAiThinking, aiCalls, clock>>
  /\ UNCHANGED hostedVars

\* A logout that clears the user and the active room and stays on the view.
handleLogout_staysOnView ==
  /\ view = DASHBOARD
  /\ users' = IF user # Null THEN logout(user) ELSE users
  /\ user' = Null
  /\ activeRoom' = 0
  /\ activeRoomRef' = Null
  /\ authError' = ""
  /\ last' = Op("handleLogout", <<>>, "OK")
  /\ UNCHANGED <<rooms, allMessages, listeners, unsubscribes,
                 publicMessages, privateMessages,
                 joinError, profileMessage, isAiThinking, aiCalls, clock, view>>
  /\ UNCHANGED hostedVars

handleLogout ==
  /\ view = DASHBOARD
  /\ users' = IF user # Null THEN logout(user) ELSE users
  /\ user' = Null
  /\ activeRoom' = 0
  /\ activeRoomRef' = Null
  /\ view' = AUTH
  /\ authError' = ""
  /\ last' = Op("handleLogout", <<>>, "OK")
  /\ UNCHANGED <<rooms, allMessages, listeners, unsubscribes,
                 publicMessages, privateMessages,
                 joinError, profileMessage, isAiThinking, aiCalls, clock>>
  /\ UNCHANGED hostedVars

\* `ERROR: ${e.message}` for the errors changePassword throws.
errorMessage(res) ==
  IF res = "USER_NOT_FOUND" THEN "ERROR: USER_NOT_FOUND"
  ELSE "ERROR: INVALID_OLD_PASSWORD"

\* handleChangePassword with what the two password fields hold; the profile
\* message of a success is cleared by a timer (clearProfileMessage).
handleChangePassword(oldPassInput, newPassInput) ==
  /\ view = PROFILE
  /\ IF user = Null
     THEN /\ last' = Op("handleChangePassword", <<>>, "RETURN")
          /\ UNCHANGED <<users, profileMessage>>
     ELSE LET out == changePassword(user, oldPassInput, newPassInput)
          IN  /\ users' = out.users
              /\ profileMessage' = IF out.res = "OK"
                                   THEN "ACCESS CREDENTIALS ROTATED"
                                   ELSE errorMessage(out.res)
              /\ last' = Op("handleChangePassword",
                            <<user, oldPassInput, newPassInput>>, out.res)
  /\ UNCHANGED <<rooms, allMessages, listeners, unsubscribes,
                 view, user, activeRoom,
                 activeRoomRef, publicMessages, privateMessages, joinError,
                 authError, isAiThinking, aiCalls, clock>>
  /\ UNCHANGED hostedVars

\* The buttons that only call setView: dashboard to the public chat or the
\* profile, and the back arrows of the chat and the profile.
setView(v) ==
  /\ \/ view = DASHBOARD /\ v \in {PUBLIC_CHAT, PROFILE}
     \/ view \in {PUBLIC_CHAT, PRIVATE_ROOM, PROFILE} /\ v = DASHBOARD
  /\ view' = v
  /\ last' = Op("setView", <<>>, "OK")
  /\ UNCHANGED <<backendVars, user, activeRoom, activeRoomRef, publicMessages,
                 privateMessages, joinError, profileMessage, authError,
                 isAiThinking, aiCalls, clock>>
  /\ UNCHANGED hostedVars

\* The synthetic message enterRoom builds; it is never stored.
sysMsg(roomId, isNew) ==
  [id |-> "sys-now", senderId |-> SYSTEM,
   content |-> IF isNew THEN <<"ROOM CREATED. SECURE CHANNEL ESTABLISHED.">>
               ELSE <<"CONNECTED TO SECURE ROOM">>,
   timestamp |-> clock, isSystem |-> TRUE, roomId |-> roomId]

\* enterRoom(room, isNew) where room is rms[i]: the private messages it sets.
enterRoomMessages(rms, i, isNew) ==
  LET history == getRoomMessages(rms[i].id)
  IN  IF Len(history) = 0 \/ isNew
      THEN Append(history, sysMsg(rms[i].id, isNew))
      ELSE history

handleCreateRoom(roomNameInput, id, key) ==
  /\ view = DASHBOARD
  /\ Len(rooms) < MaxRooms
  /\ IF user = Null \/ trim(roomNameInput) = <<>>
     THEN /\ last' = Op("handleCreateRoom", <<>>, "RETURN")
          /\ UNCHANGED <<rooms, activeRoom, activeRoomRef, privateMessages, view>>
     ELSE /\ rooms' = createRoom(user, trim(roomNameInput), id, key)
          /\ activeRoom' = Len(rooms')
          /\ activeRoomRef' = rooms'[Len(rooms')].id
          /\ privateMessages' = enterRoomMessages(rooms', Len(rooms'), TRUE)
          /\ view' = PRIVATE_ROOM
          /\ last' = Op("handleCreateRoom", <<>>, "OK")
  /\ UNCHANGED <<users, allMessages, listeners, unsubscribes,
                 user, publicMessages, joinError,
                 profileMessage, authError, isAiThinking, aiCalls, clock>>
  /\ UNCHANGED hostedVars

\* handleJoinRoom; joinRoomKey is what was typed, joinRoomId is given trimmed.
handleJoinRoom(joinRoomId, joinRoomKey) ==
  /\ view = DASHBOARD
  /\ LET key == trim(joinRoomKey)
         isValid == validateRoomAccess(joinRoomId, key)
         room == getRoom(joinRoomId)
         err == IF joinRoomId = "" \/ key = <<>> THEN "MISSING CREDENTIALS"
                ELSE IF isValid
                     THEN (IF room # 0 THEN "" ELSE "ROOM NOT FOUND")
                     ELSE "ACCESS DENIED: INVALID ID OR KEY"
     IN  /\ joinError' = err
         /\ IF err = ""
            THEN /\ activeRoom' = room
                 /\ activeRoomRef' = rooms[room].id
                 /\ privateMessages' = enterRoomMessages(rooms, room, FALSE)
                 /\ view' = PRIVATE_ROOM
            ELSE UNCHANGED <<activeRoom, activeRoomRef, privateMessages, view>>
         /\ last' = Op("handleJoinRoom", <<joinRoomId, key>>,
                       IF err = "" THEN "ENTERED" ELSE err)
  /\ UNCHANGED <<backendVars, user, publicMessages, profileMessage, authError,
                 isAiThinking, aiCalls, clock>>
  /\ UNCHANGED hostedVars

\* handleUpdateRoomKey(roomId): the SAVE button of a room the profile lists,
\* that is one of getUserRooms(user.id); editRoomKeyInput is what was typed.
handleUpdateRoomKey(roomId, editRoomKeyInput) ==
  /\ view = PROFILE
  /\ user # Null
  /\ \E i \in 1..Len(rooms) : rooms[i].id = roomId /\ rooms[i].creator_id = user
  /\ LET key == trim(editRoomKeyInput)
         out == updateRoomKey(roomId, user, key)
     IN  IF key = <<>>
         THEN /\ last' = Op("handleUpdateRoomKey", <<roomId>>, "RETURN")
              /\ UNCHANGED <<rooms, profileMessage>>
         ELSE /\ rooms' = out.rooms
              /\ profileMessage' = IF out.res = "OK" THEN "ROOM KEY UPDATED"
                                   ELSE "UPDATE FAILED"
              /\ last' = Op("handleUpdateRoomKey", <<roomId>>, out.res)
  /\ UNCHANGED <<users, allMessages, listeners, unsubscribes,
                 view, user, activeRoom,
                 activeRoomRef, publicMessages, privateMessages, joinError,
                 authError, isAiThinking, aiCalls, clock>>
  /\ UNCHANGED hostedVars

\* The setTimeout of handleUpdateRoomKey (2 s) clearing the profile message.
clearProfileMessage ==
  /\ profileMessage # ""
  /\ profileMessage' = ""
  /\ last' = Op("clearProfileMessage", <<>>, "OK")
  /\ UNCHANGED <<backendVars, view, user, activeRoom, activeRoomRef,
                 publicMessages, privateMessages, joinError, authError,
                 isAiThinking, aiCalls, clock>>
  /\ UNCHANGED hostedVars

isAiCommand(content) == startsWith(toLowerCase(content), <<"/", "a", "i">>)

\* content.replace('/ai', '').trim()
aiPrompt(content) == trim(replace(content, <<"/", "a", "i">>, <<>>))

\* sendPublicMessage and sendPrivateMessage: the message built, pushed and
\* announced.  id is what generateId returned.
sendPublicMessage_notAi(senderId, content, isAi, id) ==
  Message(id, senderId, Null, content, FALSE, FALSE, clock + 1)

sendPublicMessage(senderId, content, isAi, id) ==
  Message(id, senderId, Null, content, isAi, FALSE, clock + 1)

\* A room send that is stored in the Public channel.
sendPrivateMessage_public(senderId, content, roomId, id) ==
  Message(id, senderId, Null, content, FALSE, FALSE, clock + 1)

sendPrivateMessage_asAssistant(senderId, content, roomId, id) ==
  Message(id, senderId, roomId, content, isAiCommand(content), FALSE, clock + 1)

sendPrivateMessage(senderId, content, roomId, id) ==
  Message(id, senderId, roomId, content, FALSE, FALSE, clock + 1)

\* The message lists of the App once the events have reached its callback.
listsAfter(events) ==
  deliver(events, activeRoomRef,
          [pub |-> publicMessages, priv |-> privateMessages])

\* A message is pushed and announced.
Push(msg) ==
  /\ allMessages' = Append(allMessages, msg)
  /\ clock' = clock + 1
  /\ publicMessages' = listsAfter(<<NewMessageEvent(msg)>>).pub
  /\ privateMessages' = listsAfter(<<NewMessageEvent(msg)>>).priv

handleSendMessage(messageInput, id) ==
  /\ view \in {PUBLIC_CHAT, PRIVATE_ROOM}
  /\ clock < MaxSends
  /\ IF trim(messageInput) = <<>> \/ user = Null
     THEN /\ last' = Op("handleSendMessage", <<>>, "RETURN")
          /\ UNCHANGED <<allMessages, clock, publicMessages, privateMessages,
                         isAiThinking, aiCalls>>
     ELSE IF view = PUBLIC_CHAT
     THEN LET content == trim(messageInput)
              msg == sendPublicMessage(user, content, FALSE, id)
          IN  /\ Push(msg)
              /\ IF isAiCommand(content)
                 THEN /\ isAiThinking' = TRUE
                      /\ aiCalls' = Append(aiCalls, aiPrompt(content))
                 ELSE UNCHANGED <<isAiThinking, aiCalls>>
              /\ last' = OpE("handleSendMessage", <<id>>, "OK",
                             <<NewMessageEvent(msg)>>)
     ELSE IF activeRoom # 0
     THEN LET msg == sendPrivateMessage(user, trim(messageInput),
                                        rooms[activeRoom].id, id)
          IN  /\ Push(msg)
              /\ last' = OpE("handleSendMessage", <<id>>, "OK",
                             <<NewMessageEvent(msg)>>)
              /\ UNCHANGED <<isAiThinking, aiCalls>>
     ELSE /\ last' = Op("handleSendMessage", <<>>, "RETURN")
          /\ UNCHANGED <<allMessages, clock, publicMessages, privateMessages,
                         isAiThinking, aiCalls>>
  /\ UNCHANGED <<users, rooms, listeners, unsubscribes,
                 view, user, activeRoom, activeRoomRef,
                 joinError, profileMessage, authError>>
  /\ UNCHANGED hostedVars

\* What generateContent can do: resolve with a text, resolve with no text,
\* or reject.
Rejected == <<"<rejected>">>

AiResults == {<<"o", "k">>, <<>>, Rejected}

NotConfiguredText ==
  <<"Error: API Key not configured. Please add VITE_API_KEY to your environment variables.">>

SystemErrorText == <<"SYSTEM ERROR: UNABLE TO CONNECT TO AI CORE.">>

getGeminiResponse_passError(userMessage, configured, result) ==
  IF result = <<>> THEN <<"NO DATA RECEIVED">> ELSE result

\* getGeminiResponse(userMessage); configured says whether the module was
\* loaded with an API key (ai is not null), result is what generateContent
\* did.
getGeminiResponse(userMessage, configured, result) ==
  IF ~configured
  THEN NotConfiguredText
  ELSE IF result = Rejected
  THEN SystemErrorText
  ELSE IF result = <<>> THEN <<"NO DATA RECEIVED">>
  ELSE result

\* handleSendMessage resumes after await getGeminiResponse(prompt) for the
\* i-th pending /ai send: the reply is published as AI_CORE, and the finally
\* block clears the indicator.
aiReply(i, configured, result, id) ==
  /\ i \in 1..Len(aiCalls)
  /\ LET aiResponse == getGeminiResponse(aiCalls[i], configured, result)
         msg == sendPublicMessage(AI_CORE, aiResponse, TRUE, id)
     IN  /\ Push(msg)
         /\ last' = OpE("aiReply", <<id>>,
                        IF ~configured THEN "NO_KEY"
                        ELSE IF result = Rejected THEN "REJECTED" ELSE "OK",
                        <<NewMessageEvent(msg)>>)
  /\ isAiThinking' = FALSE
  /\ aiCalls' = Splice1(aiCalls, i)
  /\ UNCHANGED <<users, rooms, listeners, unsubscribes,
                 view, user, activeRoom, activeRoomRef,
                 joinError, profileMessage, authError>>
  /\ UNCHANGED hostedVars

\* handleDeleteMessage(msgId): what deleteMessage throws is caught and logged.
handleDeleteMessage(msgId) ==
  /\ view \in {PUBLIC_CHAT, PRIVATE_ROOM}
  /\ IF user = Null
     THEN /\ last' = Op("handleDeleteMessage", <<msgId, user>>, "RETURN")
          /\ UNCHANGED <<allMessages, publicMessages, privateMessages>>
     ELSE LET out == deleteMessage(msgId, user)
          IN  /\ allMessages' = out.msgs
              /\ publicMessages' = listsAfter(out.events).pub
              /\ privateMessages' = listsAfter(out.events).priv
              /\ last' = OpE("handleDeleteMessage", <<msgId, user>>, out.res,
                             out.events)
  /\ UNCHANGED <<users, rooms, listeners, unsubscribes,
                 view, user, activeRoom, activeRoomRef,
                 joinError, profileMessage, authError, isAiThinking, aiCalls,
                 clock>>
  /\ UNCHANGED hostedVars

\* ------------------------ ChatService called directly, by any caller
ChatService_sendPublicMessage(senderId, content, id) ==
  /\ clock < MaxSends
  /\ LET msg == sendPublicMessage(senderId, content, FALSE, id)
     IN  /\ Push(msg)
         /\ last' = OpE("sendPublicMessage", <<id, senderId>>, "OK",
                        <<NewMessageEvent(msg)>>)
  /\ UNCHANGED <<users, rooms, listeners, unsubscribes,
                 view, user, activeRoom, activeRoomRef,
                 joinError, profileMessage, authError, isAiThinking, aiCalls>>
  /\ UNCHANGED hostedVars

ChatService_sendPrivateMessage(senderId, content, roomId, id) ==
  /\ clock < MaxSends
  /\ LET msg == sendPrivateMessage(senderId, content, roomId, id)
     IN  /\ Push(msg)
         /\ last' = OpE("sendPrivateMessage", <<id, senderId>>, "OK",
                        <<NewMessageEvent(msg)>>)
  /\ UNCHANGED <<users, rooms, listeners, unsubscribes,
                 view, user, activeRoom, activeRoomRef,
                 joinError, profileMessage, authError, isAiThinking, aiCalls>>
  /\ UNCHANGED hostedVars

ChatService_deleteMessage(messageId, userId) ==
  /\ LET out == deleteMessage(messageId, userId)
     IN  /\ allMessages' = out.msgs
         /\ publicMessages' = listsAfter(out.events).pub
         /\ privateMessages' = listsAfter(out.events).priv
         /\ last' = OpE("deleteMessage", <<messageId, userId>>, out.res,
                        out.events)
  /\ UNCHANGED <<users, rooms, listeners, unsubscribes,
                 view, user, activeRoom, activeRoomRef,
                 joinError, profileMessage, authError, isAiThinking, aiCalls,
                 clock>>
  /\ UNCHANGED hostedVars

\* subscribe: the callback is pushed, and the function returned closes over it.
ChatService_subscribe(callback) ==
  /\ Len(unsubscribes) < MaxSubscribes
  /\ listeners' = Append(listeners, callback)
  /\ unsubscribes' = Append(unsubscribes,
                            [callback |-> callback, calls |-> 0])
  /\ last' = Op("subscribe", <<callback>>, Len(unsubscribes) + 1)
  /\ UNCHANGED <<users, rooms, allMessages, appVars, clock>>
  /\ UNCHANGED hostedVars

\* A call of the k-th function subscribe returned: the first place of its
\* callback in listeners, if there is one, is spliced out.
unsubscribe(k) ==
  /\ k \in 1..Len(unsubscribes)
  /\ unsubscribes[k].calls < MaxCalls
  /\ LET callback == unsubscribes[k].callback
         index == FindIndex(listeners, LAMBDA l : l = callback)
     IN  listeners' = IF index > 0 THEN Splice1(listeners, index)
                      ELSE listeners
  /\ unsubscribes' = [unsubscribes EXCEPT ![k].calls = @ + 1]
  /\ last' = Op("unsubscribe", <<k>>, "OK")
  /\ UNCHANGED <<users, rooms, allMessages, appVars, clock>>
  /\ UNCHANGED hostedVars

\* ------------------------ RoomService called directly, by any caller
\* ------------------------ AuthService called directly, by any caller
AuthService_register(userId, password) ==
  /\ users' = register(userId, password).users
  /\ last' = Op("register", <<userId, password>>, register(userId, password).res)
  /\ UNCHANGED <<rooms, allMessages, listeners, unsubscribes, appVars, clock>>
  /\ UNCHANGED hostedVars

AuthService_login(userId, password) ==
  /\ users' = login(userId, password).users
  /\ last' = Op("login", <<userId, password>>, login(userId, password).res)
  /\ UNCHANGED <<rooms, allMessages, listeners, unsubscribes, appVars, clock>>
  /\ UNCHANGED hostedVars

AuthService_changePassword(userId, oldPass, newPass) ==
  /\ users' = changePassword(userId, oldPass, newPass).users
  /\ last' = Op("changePassword", <<userId, oldPass, newPass>>,
                changePassword(userId, oldPass, newPass).res)
  /\ UNCHANGED <<rooms, allMessages, listeners, unsubscribes, appVars, clock>>
  /\ UNCHANGED hostedVars

RoomService_createRoom(creatorId, name, id, key) ==
  /\ Len(rooms) < MaxRooms
  /\ rooms' = createRoom(creatorId, name, id, key)
  /\ last' = Op("createRoom", <<id, creatorId>>, "OK")
  /\ UNCHANGED <<users, allMessages, listeners, unsubscribes, appVars, clock>>
  /\ UNCHANGED hostedVars

RoomService_updateRoomKey(roomId, userId, newKey) ==
  /\ LET out == updateRoomKey(roomId, userId, newKey)
     IN  /\ rooms' = out.rooms
         /\ last' = Op("updateRoomKey", <<roomId, userId>>, out.res)
  /\ UNCHANGED <<users, allMessages, listeners, unsubscribes, appVars, clock>>
  /\ UNCHANGED hostedVars

RoomService_validateRoomAccess(roomId, key) ==
  /\ last' = Op("validateRoomAccess", <<roomId>>,
                IF validateRoomAccess(roomId, key) THEN "true" ELSE "false")
  /\ UNCHANGED <<backendVars, appVars, clock>>
  /\ UNCHANGED hostedVars

\* ------------------------------------------------------ specifications
NoSuchRoom == "RM-9"
IdInputs == UserIds \cup {""}
PasswordInputs == Passwords \cup {"short", ""}
RoomIdInputs == RoomIds \cup {NoSuchRoom, ""}

\* The room registry of mockBackend.ts under any sequence of calls of
\* RoomService, by any callers.
Next ==
  \/ \E u \in UserIds, name \in RoomNames \cup {<<>>}, id \in RoomIds,
        key \in GeneratedKeys :
       RoomService_createRoom(u, name, id, key)
  \/ \E id \in RoomIds \cup {NoSuchRoom}, u \in UserIds, key \in Keys :
       RoomService_updateRoomKey(id, u, key)
  \/ \E id \in RoomIds \cup {NoSuchRoom}, key \in RawKeys :
       RoomService_validateRoomAccess(id, key)

Spec == Init /\ [][Next]_vars

\* The App component of the mock variant, driven through its handlers: accounts,
\* rooms, keys, joins.  No message is sent.
NextApp ==
  \/ \E u \in IdInputs, pw \in PasswordInputs, isRegistering \in BOOLEAN :
       handleAuth(u, pw, isRegistering)
  \/ handleLogout
  \/ \E v \in {DASHBOARD, PUBLIC_CHAT, PROFILE} : setView(v)
  \/ \E name \in RoomNames \cup {<<>>, Blank}, id \in RoomIds, key \in GeneratedKeys :
       handleCreateRoom(name, id, key)
  \/ \E id \in RoomIdInputs, key \in RawKeys : handleJoinRoom(id, key)
  \/ \E id \in RoomIds, key \in RawKeys : handleUpdateRoomKey(id, key)
  \/ clearProfileMessage

SpecApp == Init /\ [][NextApp]_vars

\* The accounts of mockBackend.ts under any sequence of calls of AuthService,
\* and the profile page of the mock App changing alice's password.
AccountIds == UserIds \cup {"Alice"}
PasswordValues == Passwords \cup {"longpass2", ""}

NextAuth ==
  \/ \E u \in AccountIds, pw \in PasswordValues : AuthService_register(u, pw)
  \/ \E u \in AccountIds, pw \in PasswordValues : AuthService_login(u, pw)
  \/ \E u \in AccountIds, old \in PasswordValues, new \in PasswordValues :
       AuthService_changePassword(u, old, new)
  \/ \E pw \in PasswordValues, isRegistering \in BOOLEAN :
       handleAuth("alice", pw, isRegistering)
  \/ handleLogout
  \/ \E v \in {DASHBOARD, PROFILE} : setView(v)
  \/ \E old \in PasswordValues, new \in PasswordValues :
       handleChangePassword(old, new)
  \/ clearProfileMessage

SpecAuth == Init /\ [][NextAuth]_vars

\* Callers of ChatService that subscribe callbacks of their own beside the
\* App's, call the functions returned, and send and delete public messages.
Callbacks == {"probe", "monitor"}

NextSubscribe ==
  \/ \E callback \in Callbacks : ChatService_subscribe(callback)
  \/ \E k \in 1..MaxSubscribes : unsubscribe(k)
  \/ \E id \in MsgIds : ChatService_sendPublicMessage("alice", Hello, id)
  \/ \E id \in MsgIds : ChatService_deleteMessage(id, "alice")

SpecSubscribe == Init /\ [][NextSubscribe]_vars

\* The mock App of alice in a room of bob, who rotates its key through
\* RoomService while she is in it.
NextRotate ==
  \/ \E isRegistering \in BOOLEAN :
       handleAuth("alice", "longpass1", isRegistering)
  \/ handleLogout
  \/ setView(DASHBOARD)
  \/ RoomService_createRoom("bob", <<"ops">>, "RM-1", <<"A">>)
  \/ \E key \in Keys : handleJoinRoom("RM-1", key)
  \/ \E u \in UserIds, key \in Keys : RoomService_updateRoomKey("RM-1", u, key)
  \/ \E id \in MsgIds : handleSendMessage(Hello, id)
  \/ \E id \in MsgIds : ChatService_sendPrivateMessage("bob", Hello, "RM-1", id)

SpecRotate == Init /\ [][NextRotate]_vars

\* The accounts and the message store of mockBackend.ts under registrations,
\* logins, and deletes asked by registered accounts; the assistant's messages
\* are stored by ChatService.sendPublicMessage('AI_CORE', ...).
SenderIds == {"alice", SYSTEM, AI_CORE}

Registered(userId) == \E i \in 1..Len(users) : users[i].id = userId

AccountDelete(messageId, userId) ==
  /\ Registered(userId)
  /\ ChatService_deleteMessage(messageId, userId)

NextSentinel ==
  \/ \E u \in SenderIds : AuthService_register(u, "longpass1")
  \/ \E u \in SenderIds : AuthService_login(u, "longpass1")
  \/ \E u \in {"alice", AI_CORE}, id \in MsgIds :
       ChatService_sendPublicMessage(u, Hello, id)
  \/ \E id \in MsgIds \cup {"sys-1"}, u \in SenderIds : AccountDelete(id, u)

SpecSentinel == Init /\ [][NextSentinel]_vars

\* ------------------------------------------------ App, hosted variant
\* The rows a query of fetchMessages selects: ordered by created_at, which is
\* the order of insertion.
selectMessages(scope) == Filter(allMessages, LAMBDA m : m.room_id = scope)

\* fetchMessages as called by the effect of a render with view v and
\* activeRoom r: the query it sends, if any.  rms is the rooms table.
fetchMessages(v, r, rms) ==
  IF v = PUBLIC_CHAT
  THEN <<[scope |-> Null, stage |-> "sent", ok |-> FALSE, data |-> <<>>]>>
  ELSE IF v = PRIVATE_ROOM /\ r # 0
  THEN <<[scope |-> rms[r].id, stage |-> "sent", ok |-> FALSE, data |-> <<>>]>>
  ELSE <<>>

InsertEvent(msg) == [type |-> "INSERT", new |-> msg]

DeleteEvent(id) == [type |-> "DELETE", old |-> [id |-> id]]

\* An INSERT handler that keeps the list ordered by created_at: the row goes
\* before the first row created after it.
insertHandler_sorted(ch, newMsg, prev) ==
  LET later == {i \in 1..Len(prev) : prev[i].created_at > newMsg.created_at}
      p == IF later = {} THEN Len(prev) + 1
           ELSE CHOOSE i \in later : \A j \in later : i <= j
      placed == SubSeq(prev, 1, p - 1) \o <<newMsg>> \o SubSeq(prev, p, Len(prev))
  IN  IF ch.view = PUBLIC_CHAT /\ Falsy(newMsg.room_id)
      THEN placed
      ELSE IF /\ ch.view = PRIVATE_ROOM
              /\ ch.activeRoom # 0
              /\ newMsg.room_id = rooms[ch.activeRoom].id
      THEN placed
      ELSE prev

\* The INSERT handler of a channel, with the view and activeRoom of the render
\* that subscribed it.
insertHandler(ch, newMsg, prev) ==
  IF ch.view = PUBLIC_CHAT /\ Falsy(newMsg.room_id)
  THEN Append(prev, newMsg)
  ELSE IF /\ ch.view = PRIVATE_ROOM
          /\ ch.activeRoom # 0
          /\ newMsg.room_id = rooms[ch.activeRoom].id
  THEN Append(prev, newMsg)
  ELSE prev

\* The DELETE handler of a channel.
deleteHandler(old, prev) == Filter(prev, LAMBDA m : m.id # old.id)

\* The effect without its cleanup and without its dependencies: a channel
\* once subscribed is kept.
Effect_keepChannel(v, r, rms) ==
  IF v = view /\ r = activeRoom
  THEN UNCHANGED <<channel, fetches, feed>>
  ELSE /\ feed' = feed
       /\ IF v \in {PUBLIC_CHAT, PRIVATE_ROOM}
          THEN /\ channel' = IF channel.open THEN channel
                             ELSE [open |-> TRUE, view |-> v, activeRoom |-> r]
               /\ fetches' = fetches \o fetchMessages(v, r, rms)
          ELSE /\ channel' = channel
               /\ UNCHANGED fetches

\* The effect on [view, activeRoom] after a render with view v and activeRoom
\* r: the channel of the previous effect is removed, and in a chat view
\* fetchMessages is called and a channel subscribed.
Effect(v, r, rms) ==
  IF v = view /\ r = activeRoom
  THEN UNCHANGED <<channel, fetches, feed>>
  ELSE /\ feed' = <<>>
       /\ IF v \in {PUBLIC_CHAT, PRIVATE_ROOM}
          THEN /\ channel' = [open |-> TRUE, view |-> v, activeRoom |-> r]
               /\ fetches' = fetches \o fetchMessages(v, r, rms)
          ELSE /\ channel' = NoChannel
               /\ UNCHANGED fetches

\* A change of the messages table reaches the feed of the subscribed channel.
Emit(event) ==
  feed' = IF channel.open THEN Append(feed, event) ELSE feed

mockVars == <<users, listeners, unsubscribes, activeRoomRef,
              publicMessages, privateMessages,
              joinError, profileMessage, authError, isAiThinking, aiCalls>>

\* onAuthStateChange with a session after signInWithPassword, and the
\* fetchUserProfile it calls.
onAuthStateChange(userId) ==
  /\ view = AUTH
  /\ user = Null
  /\ authPc = "idle"
  /\ IF isProcessingRegistration
     THEN /\ last' = Op("onAuthStateChange", <<>>, "IGNORED")
          /\ UNCHANGED <<user, view, channel, fetches, feed>>
     ELSE /\ user' = userId
          /\ view' = DASHBOARD
          /\ Effect(DASHBOARD, activeRoom, rooms)
          /\ last' = Op("onAuthStateChange", <<>>, "OK")
  /\ UNCHANGED <<rooms, allMessages, activeRoom, clock, messages,
                 mockVars, authVars>>

\* handleAuth on the registration tab with a username and a password: the
\* ref is set and signUp is awaited.
handleAuth_register ==
  /\ view = AUTH
  /\ authPc = "idle"
  /\ isProcessingRegistration' = TRUE
  /\ authPc' = "signUp"
  /\ last' = Op("handleAuth", <<>>, "SIGN_UP")
  /\ UNCHANGED <<rooms, allMessages, view, user, activeRoom, clock, messages,
                 channel, fetches, feed, mockVars>>

\* signUp returns: with an error (thrown, the catch resets the ref), with no
\* error and no user (the if is skipped), or with a user (the profile insert
\* is awaited).  The session events of the sign-up reach the listener while
\* the ref is set and are ignored.
signUpReturned(outcome) ==
  /\ authPc = "signUp"
  /\ IF outcome = "error"
     THEN /\ isProcessingRegistration' = FALSE
          /\ authPc' = "idle"
     ELSE IF outcome = "no user"
     THEN /\ authPc' = "idle"
          /\ UNCHANGED isProcessingRegistration
     ELSE /\ authPc' = "insertProfile"
          /\ UNCHANGED isProcessingRegistration
  /\ last' = Op("signUp", <<>>, outcome)
  /\ UNCHANGED <<rooms, allMessages, view, user, activeRoom, clock, messages,
                 channel, fetches, feed, mockVars>>

\* The insert into profiles returns; its error is only logged.
profileInserted(profileError) ==
  /\ authPc = "insertProfile"
  /\ authPc' = "signOut"
  /\ last' = Op("insertProfile", <<>>, IF profileError THEN "ERROR" ELSE "OK")
  /\ UNCHANGED <<rooms, allMessages, view, user, activeRoom, clock, messages,
                 channel, fetches, feed, mockVars, isProcessingRegistration>>

\* signOut returns or throws: the ref is reset after it, or in the catch.
signedOut(thrown) ==
  /\ authPc = "signOut"
  /\ authPc' = "idle"
  /\ isProcessingRegistration' = FALSE
  /\ last' = Op("signOut", <<>>,
                IF thrown THEN "ERROR"
                ELSE "REGISTRATION SUCCESSFUL. PLEASE LOGIN.")
  /\ UNCHANGED <<rooms, allMessages, view, user, activeRoom, clock, messages,
                 channel, fetches, feed, mockVars>>

hosted_handleLogout ==
  /\ view = DASHBOARD
  /\ user' = Null
  /\ messages' = <<>>
  /\ view' = AUTH
  /\ Effect(AUTH, activeRoom, rooms)
  /\ last' = Op("handleLogout", <<>>, "OK")
  /\ UNCHANGED <<rooms, allMessages, activeRoom, clock, mockVars, authVars>>

\* setView(PUBLIC_CHAT) of the dashboard and setView(DASHBOARD) of the chat
\* header.
hosted_setView(v) ==
  /\ \/ view = DASHBOARD /\ v = PUBLIC_CHAT
     \/ view \in {PUBLIC_CHAT, PRIVATE_ROOM} /\ v = DASHBOARD
  /\ v = PUBLIC_CHAT => Len(fetches) < MaxFetches
  /\ view' = v
  /\ Effect(v, activeRoom, rooms)
  /\ last' = Op("setView", <<>>, "OK")
  /\ UNCHANGED <<rooms, allMessages, user, activeRoom, clock, messages,
                 mockVars, authVars>>

\* enterRoom(room), with the effect of the render that follows.
hosted_enterRoom(r, rms) ==
  /\ activeRoom' = r
  /\ view' = PRIVATE_ROOM
  /\ Effect(PRIVATE_ROOM, r, rms)

\* ENTER of a room of the MY ROOMS list.
enterUserRoom(r) ==
  /\ view = DASHBOARD
  /\ Len(fetches) < MaxFetches
  /\ r \in 1..Len(rooms)
  /\ rooms[r].creator_id = user
  /\ hosted_enterRoom(r, rooms)
  /\ last' = Op("enterRoom", <<rooms[r].id>>, "OK")
  /\ UNCHANGED <<rooms, allMessages, user, clock, messages, mockVars, authVars>>

\* handleCreateRoom: the insert into rooms fails when the id is already taken.
hosted_handleCreateRoom(roomNameInput, roomId, roomKey) ==
  /\ view = DASHBOARD
  /\ Len(rooms) < MaxRooms
  /\ Len(fetches) < MaxFetches
  /\ IF user = Null \/ trim(roomNameInput) = <<>>
     THEN /\ last' = Op("handleCreateRoom", <<roomId>>, "RETURN")
          /\ UNCHANGED <<rooms, view, activeRoom, channel, fetches, feed>>
     ELSE IF findRoom(roomId) # 0
     THEN /\ last' = Op("handleCreateRoom", <<roomId>>, "FAILED")
          /\ UNCHANGED <<rooms, view, activeRoom, channel, fetches, feed>>
     ELSE /\ rooms' = Append(rooms, Room(roomId, roomKey, trim(roomNameInput), user))
          /\ hosted_enterRoom(Len(rooms) + 1, rooms')
          /\ last' = Op("handleCreateRoom", <<roomId>>, "OK")
  /\ UNCHANGED <<allMessages, user, clock, messages, mockVars, authVars>>

hosted_handleJoinRoom(joinRoomId, joinRoomKey) ==
  /\ view = DASHBOARD
  /\ Len(fetches) < MaxFetches
  /\ LET data == findRoom(joinRoomId)
     IN  IF data = 0
         THEN /\ last' = Op("handleJoinRoom",
                            <<joinRoomId, trim(joinRoomKey)>>, "ROOM NOT FOUND")
              /\ UNCHANGED <<view, activeRoom, channel, fetches, feed>>
         ELSE IF rooms[data].key = trim(joinRoomKey)
         THEN /\ hosted_enterRoom(data, rooms)
              /\ last' = Op("handleJoinRoom",
                            <<joinRoomId, trim(joinRoomKey)>>, "JOINED ROOM")
         ELSE /\ last' = Op("handleJoinRoom",
                            <<joinRoomId, trim(joinRoomKey)>>,
                            "INVALID ACCESS KEY")
              /\ UNCHANGED <<view, activeRoom, channel, fetches, feed>>
  /\ UNCHANGED <<rooms, allMessages, user, clock, messages, mockVars, authVars>>

\* The messages table after an insert; the database fills id and created_at.
insertMessage(userId, roomId, content) ==
  Append(allMessages,
         Message(clock + 1, userId, roomId, content, FALSE, FALSE, clock + 1))

hosted_handleSendMessage(messageInput, error) ==
  /\ view \in {PUBLIC_CHAT, PRIVATE_ROOM}
  /\ clock < MaxSends
  /\ IF trim(messageInput) = <<>> \/ user = Null
     THEN /\ last' = Op("handleSendMessage", <<>>, "RETURN")
          /\ UNCHANGED <<allMessages, clock, feed>>
     ELSE IF error
     THEN /\ last' = Op("handleSendMessage", <<>>, "FAILED TO SEND MESSAGE")
          /\ UNCHANGED <<allMessages, clock, feed>>
     ELSE LET room_id == IF view = PRIVATE_ROOM /\ activeRoom # 0
                         THEN rooms[activeRoom].id ELSE Null
          IN  /\ allMessages' = insertMessage(user, room_id, trim(messageInput))
              /\ clock' = clock + 1
              /\ Emit(InsertEvent(allMessages'[Len(allMessages')]))
              /\ last' = Op("handleSendMessage", <<clock + 1>>, "OK")
  /\ UNCHANGED <<rooms, view, user, activeRoom, messages, channel, fetches,
                 mockVars, authVars>>

\* handleDeleteMessage(msg.id, msg.user_id) of a message shown, confirmed.
deleteRequest(msgId, senderId) ==
  /\ IF user = Null \/ user # senderId
     THEN /\ last' = Op("handleDeleteMessage", <<msgId>>, "RETURN")
          /\ UNCHANGED <<allMessages, feed>>
     ELSE /\ allMessages' = Filter(allMessages, LAMBDA m : m.id # msgId)
          /\ IF allMessages' # allMessages
             THEN Emit(DeleteEvent(msgId))
             ELSE UNCHANGED feed
          /\ last' = Op("handleDeleteMessage", <<msgId>>, "MESSAGE DELETED")
  /\ UNCHANGED <<rooms, view, user, activeRoom, clock, messages, channel,
                 fetches, mockVars, authVars>>

hosted_handleDeleteMessage(i) ==
  /\ view \in {PUBLIC_CHAT, PRIVATE_ROOM}
  /\ i \in 1..Len(messages)
  /\ deleteRequest(messages[i].id, messages[i].user_id)

\* Another client of the same database sends a message, to the Public
\* channel or to a room that exists.
otherClient_insert(userId, roomId, content) ==
  /\ clock < MaxSends
  /\ roomId = Null \/ findRoom(roomId) # 0
  /\ allMessages' = insertMessage(userId, roomId, content)
  /\ clock' = clock + 1
  /\ Emit(InsertEvent(allMessages'[Len(allMessages')]))
  /\ last' = Op("insert", <<clock + 1>>, "OK")
  /\ UNCHANGED <<rooms, view, user, activeRoom, messages, channel, fetches,
                 mockVars, authVars>>

\* Another client of the same database deletes one of its messages.
otherClient_delete(i) ==
  /\ i \in 1..Len(allMessages)
  /\ allMessages[i].user_id # user
  /\ allMessages' = Splice1(allMessages, i)
  /\ Emit(DeleteEvent(allMessages[i].id))
  /\ last' = Op("delete", <<allMessages[i].id>>, "OK")
  /\ UNCHANGED <<rooms, view, user, activeRoom, clock, messages, channel,
                 fetches, mockVars, authVars>>

\* The database answers a query of fetchMessages, with rows or with an error.
queryServed(i, error) ==
  /\ i \in 1..Len(fetches)
  /\ fetches[i].stage = "sent"
  /\ fetches' = [fetches EXCEPT ![i] =
                   [scope |-> @.scope, stage |-> "served", ok |-> ~error,
                    data |-> IF error THEN <<>>
                             ELSE selectMessages(@.scope)]]
  /\ last' = Op("queryServed", <<fetches[i].scope>>,
                IF error THEN "ERROR" ELSE "OK")
  /\ UNCHANGED <<rooms, allMessages, view, user, activeRoom, clock, messages,
                 channel, feed, mockVars, authVars>>

\* fetchMessages resumes after its await: if (data) setMessages(data).
fetchCompleted(i) ==
  /\ i \in 1..Len(fetches)
  /\ fetches[i].stage = "served"
  /\ messages' = IF fetches[i].ok THEN fetches[i].data ELSE messages
  /\ fetches' = Splice1(fetches, i)
  /\ last' = Op("fetchCompleted", <<fetches[i].scope>>,
                IF fetches[i].ok THEN "DATA" ELSE "NULL")
  /\ UNCHANGED <<rooms, allMessages, view, user, activeRoom, clock, channel,
                 feed, mockVars, authVars>>

\* The channel delivers the oldest event of the feed to its handler.
feedDelivered ==
  /\ feed # <<>>
  /\ channel.open
  /\ messages' = IF Head(feed).type = "INSERT"
                 THEN insertHandler(channel, Head(feed).new, messages)
                 ELSE deleteHandler(Head(feed).old, messages)
  /\ feed' = Tail(feed)
  /\ last' = OpE("feedDelivered", <<>>, "OK", <<Head(feed)>>)
  /\ UNCHANGED <<rooms, allMessages, view, user, activeRoom, clock, channel,
                 fetches, mockVars, authVars>>

\* The message store of mockBackend.ts under any sequence of calls of
\* ChatService, by any callers, with the App mounted and subscribed.
Contents == {Hello}

NextStore ==
  \/ \E u \in UserIds, c \in Contents, id \in MsgIds :
       ChatService_sendPublicMessage(u, c, id)
  \/ \E u \in UserIds, c \in Contents, r \in RoomIds, id \in MsgIds :
       ChatService_sendPrivateMessage(u, c, r, id)
  \/ \E id \in MsgIds \cup {"sys-1"}, u \in UserIds :
       ChatService_deleteMessage(id, u)

SpecStore == Init /\ [][NextStore]_vars

\* The App component of the mock variant in its chat views, with other callers
\* of ChatService sending and deleting beside it.
NextChat ==
  \/ \E isRegistering \in BOOLEAN :
       handleAuth("alice", "longpass1", isRegistering)
  \/ handleLogout
  \/ \E v \in {DASHBOARD, PUBLIC_CHAT} : setView(v)
  \/ \E id \in RoomIds : handleCreateRoom(<<"ops">>, id, <<"A">>)
  \/ \E id \in RoomIds : handleJoinRoom(id, <<"A">>)
  \/ \E c \in Contents \cup {Blank}, id \in MsgIds : handleSendMessage(c, id)
  \/ \E id \in MsgIds : handleDeleteMessage(id)
  \/ \E c \in Contents, r \in RoomIds, id \in MsgIds :
       ChatService_sendPrivateMessage("bob", c, r, id)

SpecChat == Init /\ [][NextChat]_vars

\* The App component of the mock variant with the assistant.
AiContents == {Hello, AiPing, AiPingUpper, Blank}

NextAi ==
  \/ \E isRegistering \in BOOLEAN :
       handleAuth("alice", "longpass1", isRegistering)
  \/ handleLogout
  \/ \E v \in {DASHBOARD, PUBLIC_CHAT} : setView(v)
  \/ handleCreateRoom(<<"ops">>, "RM-1", <<"A">>)
  \/ \E c \in AiContents, id \in MsgIds : handleSendMessage(c, id)
  \/ \E i \in 1..MaxSends, configured \in BOOLEAN, result \in AiResults,
        id \in MsgIds :
       aiReply(i, configured, result, id)

SpecAi == Init /\ [][NextAi]_vars

\* The App component of the hosted variant against its database, with other
\* clients of the same database beside it.
InitHosted ==
  /\ users = <<>>
  /\ rooms = <<>>
  /\ allMessages = <<>>
  /\ listeners = <<>>
  /\ unsubscribes = <<>>
  /\ view = AUTH
  /\ user = Null
  /\ activeRoom = 0
  /\ activeRoomRef = Null
  /\ publicMessages = <<>>
  /\ privateMessages = <<>>
  /\ joinError = ""
  /\ profileMessage = ""
  /\ authError = ""
  /\ isAiThinking = FALSE
  /\ aiCalls = <<>>
  /\ clock = 0
  /\ last = Op("init", <<>>, "OK")
  /\ messages = <<>>
  /\ channel = NoChannel
  /\ fetches = <<>>
  /\ feed = <<>>
  /\ isProcessingRegistration = FALSE
  /\ authPc = "idle"

NextHosted ==
  \/ onAuthStateChange("alice")
  \/ hosted_handleLogout
  \/ \E v \in {DASHBOARD, PUBLIC_CHAT} : hosted_setView(v)
  \/ \E r \in 1..MaxRooms : enterUserRoom(r)
  \/ hosted_handleCreateRoom(<<"ops">>, "RM-1", <<"A">>)
  \/ \E id \in {"RM-1", NoSuchRoom}, k \in {<<"A">>, <<"a">>} :
       hosted_handleJoinRoom(id, k)
  \/ \E c \in Contents \cup {Blank}, error \in BOOLEAN :
       hosted_handleSendMessage(c, error)
  \/ \E i \in 1..MaxSends : hosted_handleDeleteMessage(i)
  \/ \E r \in {"RM-1", Null}, c \in Contents :
       otherClient_insert("bob", r, c)
  \/ \E i \in 1..MaxSends : otherClient_delete(i)
  \/ \E i \in 1..MaxFetches, error \in BOOLEAN : queryServed(i, error)
  \/ \E i \in 1..MaxFetches : fetchCompleted(i)
  \/ feedDelivered

SpecHosted == InitHosted /\ [][NextHosted]_vars

\* The hosted App with its registration form: registrations that end in each
\* way, logins, and the Public channel once signed in.
SignUpOutcomes == {"error", "no user", "user"}

NextHostedAuth ==
  \/ handleAuth_register
  \/ \E outcome \in SignUpOutcomes : signUpReturned(outcome)
  \/ \E profileError \in BOOLEAN : profileInserted(profileError)
  \/ \E thrown \in BOOLEAN : signedOut(thrown)
  \/ onAuthStateChange("alice")
  \/ hosted_handleLogout
  \/ \E v \in {DASHBOARD, PUBLIC_CHAT} : hosted_setView(v)
  \/ \E error \in BOOLEAN : hosted_handleSendMessage(Hello, error)
  \/ \E i \in 1..MaxFetches, error \in BOOLEAN : queryServed(i, error)
  \/ \E i \in 1..MaxFetches : fetchCompleted(i)
  \/ feedDelivered

SpecHostedAuth == InitHosted /\ [][NextHostedAuth]_vars

\* ===================================================== access controller
RoomExists(roomId) == findRoom(roomId) # 0
StoredKey(roomId) == rooms[findRoom(roomId)].key
Owner(roomId) == rooms[findRoom(roomId)].creator_id

\* C1: in every reachable state of the room registry, a join on an existing
\* room succeeds if and only if the supplied key is character for character
\* the stored access key (case-sensitive, nothing normalised).
C1_JoinIffExactKey ==
  \A id \in RoomIds, k \in RawKeys :
    RoomExists(id) => (validateRoomAccess(id, k) <=> k = StoredKey(id))

\* C2: a rotation that replaces a room's key by a different one makes, from
\* that state on, every join with the new key succeed and every join with the
\* previous key fail, whatever the new key is (lower case included).
C2_RotationTakesEffect ==
  [][\A id \in RoomIds, old \in RawKeys, new \in RawKeys :
       (/\ RoomExists(id)
        /\ StoredKey(id) = old
        /\ StoredKey(id)' = new
        /\ old # new)
         => (validateRoomAccess(id, new)' /\ ~validateRoomAccess(id, old)')
    ]_vars

\* C3: updateRoomKey called by someone who is not the room's owner throws
\* UNAUTHORIZED and leaves every room (key and all other fields) as it was.
C3_NonOwnerRotationRejected ==
  [][(/\ last'.op = "updateRoomKey"
      /\ RoomExists(last'.args[1])
      /\ Owner(last'.args[1]) # last'.args[2])
       => (last'.res = "UNAUTHORIZED" /\ rooms' = rooms)]_vars

C3_Witness ==
  /\ last.op = "updateRoomKey"
  /\ last.res = "UNAUTHORIZED"
  /\ RoomExists(last.args[1])
  /\ Owner(last.args[1]) # last.args[2]

\* C4: a join reports not-found for a room id that is not in the registry and
\* invalid-key for an existing room with a non-matching key, and never the one
\* for the other.
C4_JoinFailuresDistinct ==
  [][(last'.op = "handleJoinRoom" /\ last'.res # "MISSING CREDENTIALS")
       => /\ ~RoomExists(last'.args[1]) => last'.res = "ROOM NOT FOUND"
          /\ RoomExists(last'.args[1])
               => last'.res \in {"ENTERED", "ACCESS DENIED: INVALID ID OR KEY"}
    ]_vars

\* ========================================================= message store
\* C5: for every stored message M authored by A, a delete attempt on M by an
\* identity other than A fails, leaves the store as it was and emits no delete
\* event; a delete attempt on M by A removes exactly M, leaving every other
\* message as it was, and emits one delete event for M.
C5_DeleteOnlyByAuthor ==
  [][\A i \in 1..Len(allMessages) :
       (last'.op = "deleteMessage" /\ allMessages[i].id = last'.args[1])
         => IF last'.args[2] # allMessages[i].user_id
            THEN /\ last'.res = "UNAUTHORIZED_DELETE"
                 /\ allMessages' = allMessages
                 /\ last'.events = <<>>
            ELSE /\ allMessages' = Splice1(allMessages, i)
                 /\ last'.events =
                      <<DeleteMessageEvent(allMessages[i].id,
                                           allMessages[i].room_id)>>]_vars

\* ============================================================= live view
\* The scope the mock App shows and the list it renders for it.
ActiveScope == IF view = PUBLIC_CHAT THEN Null ELSE activeRoomId

LiveView == IF view = PUBLIC_CHAT THEN publicMessages ELSE privateMessages

\* C6: an insert event delivered while a chat view is shown is appended to the
\* Live View if and only if the room_id of its message equals the active scope
\* (null for Public, the room's id for a room); otherwise the Live View is left
\* as it was.
C6_InsertAppliedIffInScope ==
  [][\A k \in 1..Len(last'.events) :
       (/\ last'.events[k].type = "NEW_MESSAGE"
        /\ view \in {PUBLIC_CHAT, PRIVATE_ROOM})
         => IF last'.events[k].message.room_id = ActiveScope
            THEN LiveView' = Append(LiveView, last'.events[k].message)
            ELSE LiveView' = LiveView]_vars

\* The scope the hosted App shows: null for the Public channel, the id of the
\* active room for a room, and "none" outside the chat views.
HostedScope ==
  IF view = PUBLIC_CHAT THEN Null
  ELSE IF view = PRIVATE_ROOM /\ activeRoom # 0 THEN rooms[activeRoom].id
  ELSE "none"

\* C7: last-scope-wins.  When the fetch of a scope X completes while another
\* scope Y is the active one, its result is discarded: the Live View is left
\* as it was.
C7_StaleFetchDiscarded ==
  [][(/\ last'.op = "fetchCompleted"
      /\ HostedScope # "none"
      /\ last'.args[1] # HostedScope)
       => messages' = messages]_vars

\* C8: while a scope is active, every message held in the Live View belongs to
\* that scope.
C8_LiveViewInScope ==
  HostedScope # "none"
    => \A i \in 1..Len(messages) : messages[i].room_id = HostedScope

\* The client is quiescent: no fetch is in flight and every event emitted for
\* its channel has been delivered.
Quiescent == HostedScope # "none" /\ fetches = <<>> /\ feed = <<>>

\* C9: whenever the client is quiescent with an active scope, the Live View
\* holds exactly the messages the store holds for that scope, each once.
C9_LiveViewMatchesStore ==
  Quiescent
    => /\ \A i \in 1..Len(messages) :
            \E j \in 1..Len(allMessages) : allMessages[j] = messages[i]
       /\ \A j \in 1..Len(allMessages) :
            allMessages[j].room_id = HostedScope
              => Cardinality({i \in 1..Len(messages) :
                                messages[i] = allMessages[j]}) = 1
       /\ \A i \in 1..Len(messages) : messages[i].room_id = HostedScope

\* C10: no two rooms of the registry have the same id.
C10_RoomIdsUnique ==
  \A i, j \in 1..Len(rooms) : i # j => rooms[i].id # rooms[j].id


\* C11: across every transition, every room of the registry stays in it with
\* the same id and the same owner, and its key differs after the transition
\* only if the transition is a key rotation on that room's id requested by
\* that room's owner.
C11_RoomFrame ==
  [][\A i \in 1..Len(rooms) :
       /\ i <= Len(rooms')
       /\ rooms'[i].id = rooms[i].id
       /\ rooms'[i].creator_id = rooms[i].creator_id
       /\ rooms'[i].name = rooms[i].name
       /\ rooms'[i].key # rooms[i].key
            => \/ /\ last'.op = "updateRoomKey"
                  /\ last'.args = <<rooms[i].id, rooms[i].creator_id>>
               \/ /\ last'.op = "handleUpdateRoomKey"
                  /\ last'.args = <<rooms[i].id>>
                  /\ user = rooms[i].creator_id]_vars

\* A rotation by the owner has replaced a generated key by a lower-case one.
C11_Witness ==
  /\ last.op = "updateRoomKey"
  /\ last.res = "OK"
  /\ RoomExists(last.args[1])
  /\ Owner(last.args[1]) = last.args[2]
  /\ StoredKey(last.args[1]) = <<"a">>

\* The operations that delete a message.
DeleteOps == {"deleteMessage", "handleDeleteMessage", "delete"}

\* C12: across every transition the stored messages keep every field: the
\* store after is the store before, or the store before with one message
\* appended, or the store before with one message removed, and a message is
\* removed only by a delete of its id.
C12_MessagesImmutable ==
  [][\/ allMessages' = allMessages
     \/ /\ Len(allMessages') = Len(allMessages) + 1
        /\ SubSeq(allMessages', 1, Len(allMessages)) = allMessages
     \/ \E i \in 1..Len(allMessages) :
          /\ allMessages' = Splice1(allMessages, i)
          /\ last'.op \in DeleteOps
          /\ last'.args[1] = allMessages[i].id]_vars

\* A delete went through and left other messages in the store.
C12_Witness ==
  /\ last.op = "handleDeleteMessage"
  /\ last.res = "OK"
  /\ Len(allMessages) >= 2

\* C13: when another client sends a message to the room the App has active,
\* the Live View of the room receives it through the insert event.  (The
\* mock feed calls the subscribed callback inside the send, so the event is
\* delivered, once and for all, in the step of the send.)
C13_RoomSendReachesView ==
  [][(/\ last'.op = "sendPrivateMessage"
      /\ view = PRIVATE_ROOM
      /\ activeRoom # 0
      /\ last'.events[1].message.room_id = activeRoomId)
       => \E i \in 1..Len(privateMessages') :
            privateMessages'[i] = last'.events[1].message]_vars

\* ============================================================== assistant
\* The message a step appended to the store.
Appended == allMessages'[Len(allMessages')]

AppendsOne ==
  /\ Len(allMessages') = Len(allMessages) + 1
  /\ SubSeq(allMessages', 1, Len(allMessages)) = allMessages

\* C14: a send in the Public scope whose text begins with the assistant
\* prefix stores the user's own message and leaves exactly one reply pending;
\* the completion of a pending reply stores exactly one message, authored by
\* the sentinel identity, with is_ai set and room_id null, and consumes that
\* pending reply; nothing else adds a pending reply or stores a message with
\* is_ai set.
C14_AssistantRepliesOnce ==
  [][/\ (/\ last'.op = "handleSendMessage"
         /\ last'.res = "OK"
         /\ view = PUBLIC_CHAT
         /\ isAiCommand(last'.events[1].message.content))
          => /\ AppendsOne
             /\ Appended = last'.events[1].message
             /\ Appended.user_id = user
             /\ ~Appended.is_ai
             /\ Len(aiCalls') = Len(aiCalls) + 1
     /\ last'.op = "aiReply"
          => /\ AppendsOne
             /\ Appended.user_id = AI_CORE
             /\ Appended.is_ai
             /\ Appended.room_id = Null
             /\ Len(aiCalls') = Len(aiCalls) - 1
     /\ Len(aiCalls') > Len(aiCalls)
          => /\ last'.op = "handleSendMessage"
             /\ view = PUBLIC_CHAT
             /\ isAiCommand(last'.events[1].message.content)
     /\ (Len(allMessages') > Len(allMessages) /\ Appended.is_ai)
          => last'.op = "aiReply"]_vars

\* The reply to an /ai send has been stored after the user's message and no
\* reply is pending.
C14_Witness ==
  /\ last.op = "aiReply"
  /\ aiCalls = <<>>
  /\ \E i, j \in 1..Len(allMessages) :
       /\ i < j
       /\ isAiCommand(allMessages[i].content)
       /\ allMessages[i].user_id = "alice"
       /\ allMessages[j].user_id = AI_CORE
       /\ allMessages[j].is_ai
       /\ Cardinality({k \in 1..Len(allMessages) : allMessages[k].is_ai}) = 1

\* C15: when the backend call fails, or no backend is configured, the
\* completion of the assistant path stores exactly one message, authored by
\* the sentinel identity and carrying the fixed diagnostic text of that
\* failure, and the assistant-in-progress indicator is off afterwards.
C15_FailureGivesDiagnostic ==
  [][(last'.op = "aiReply" /\ last'.res \in {"NO_KEY", "REJECTED"})
       => /\ AppendsOne
          /\ Appended.user_id = AI_CORE
          /\ Appended.is_ai
          /\ Appended.content = IF last'.res = "NO_KEY"
                                THEN NotConfiguredText ELSE SystemErrorText
          /\ last'.events = <<NewMessageEvent(Appended)>>
          /\ ~isAiThinking']_vars

\* A rejected backend call has been answered with the diagnostic text.
C15_Witness ==
  /\ last.op = "aiReply"
  /\ last.res = "REJECTED"
  /\ allMessages[Len(allMessages)].content = SystemErrorText
  /\ ~isAiThinking

\* The number of times the Live View of the hosted App holds the row m.
TimesShown(view_, m) == Cardinality({i \in 1..Len(view_) : view_[i] = m})

\* C16: a send never changes the sender's Live View itself; while the insert
\* event of the sender's own message is still waiting in the change feed the
\* Live View does not hold that message, and once the event has been
\* delivered in the message's scope the Live View holds it exactly once.
C16_SendShownOnlyByFeed ==
  /\ [][last'.op = "handleSendMessage" => messages' = messages]_vars
  /\ [](\A k \in 1..Len(feed) :
          (feed[k].type = "INSERT" /\ feed[k].new.user_id = user)
            => TimesShown(messages, feed[k].new) = 0)
  /\ [][(/\ last'.op = "feedDelivered"
         /\ last'.events[1].type = "INSERT"
         /\ last'.events[1].new.user_id = user
         /\ last'.events[1].new.room_id = HostedScope)
          => TimesShown(messages', last'.events[1].new) = 1]_vars

\* The number of change-feed subscriptions the client holds open: the
\* callbacks registered with ChatService.subscribe and the subscribed channel.
Subscriptions == Len(listeners) + IF channel.open THEN 1 ELSE 0

\* C17: in every reachable state the client holds at most one open
\* change-feed subscription, exactly one while a chat scope is active, and an
\* open channel is the one subscribed for the current view and room: the
\* subscription of the previous scope is closed by the time the next is open.
C17_OneSubscription ==
  /\ Subscriptions <= 1
  /\ HostedScope # "none" => Subscriptions = 1
  /\ channel.open => channel.view = view /\ channel.activeRoom = activeRoom

\* The client went from the Public channel into a room while the fetch of the
\* Public channel was still in flight, and holds the channel of the room.
C17_Witness ==
  /\ view = PRIVATE_ROOM
  /\ activeRoom # 0
  /\ channel.open
  /\ \E i \in 1..Len(fetches) : fetches[i].scope = Null

\* C18: a createRoom whose name is empty after trimming persists no room: the
\* registry never holds a room with such a name.
C18_NoRoomWithEmptyName ==
  \A i \in 1..Len(rooms) : trim(rooms[i].name) # <<>>

\* What the mock App shows the user as the outcome of an action.
Notifications == <<joinError, profileMessage, authError>>

\* C19: a delete that the store rejects because the caller is not the author
\* ends with a rejection shown to the user: the notification state is not
\* left as it was.
C19_RejectedDeleteIsShown ==
  [][(last'.op = "handleDeleteMessage" /\ last'.res = "UNAUTHORIZED_DELETE")
       => Notifications' # Notifications]_vars

ChangeOps == {"changePassword", "handleChangePassword"}

\* Every account stays, with its identity, and its password differs after a
\* step only if the step is a successful changePassword on that account
\* called with the password it had.
CredentialFrame ==
  \A i \in 1..Len(users) :
    /\ i <= Len(users')
    /\ users'[i].id = users[i].id
    /\ users'[i].password # users[i].password
         => /\ last'.op \in ChangeOps
            /\ last'.res = "OK"
            /\ last'.args[1] = users[i].id
            /\ last'.args[2] = users[i].password
            /\ last'.args[3] = users'[i].password

\* A changePassword on an existing account with a wrong old password fails
\* and leaves the accounts as they were.
WrongOldRejected ==
  \A i \in 1..Len(users) :
    (/\ last'.op \in ChangeOps
     /\ Len(last'.args) = 3
     /\ last'.args[1] = users[i].id
     /\ last'.args[2] # users[i].password)
      => last'.res = "INVALID_OLD_PASSWORD" /\ users' = users

\* C20 as stated: the credential changes only through changePassword called
\* with the current credential, a wrong old password fails and changes
\* nothing, the identity never changes, and after every successful change
\* login with the old password fails and login with the new one succeeds.
C20_CredentialRotation ==
  [][/\ CredentialFrame
     /\ WrongOldRejected
     /\ \A u \in AccountIds, old \in PasswordValues, new \in PasswordValues :
          (last'.op \in ChangeOps /\ last'.res = "OK"
             /\ last'.args = <<u, old, new>>)
            => /\ (login(u, old).res)' # "OK"
               /\ (login(u, new).res)' = "OK"]_vars

\* C20, amended: as stated, except that login with the old password fails
\* after a successful change only when the new password differs from the old
\* one; changePassword accepts a new password equal to the old.
C20_CredentialRotationDistinct ==
  [][/\ CredentialFrame
     /\ WrongOldRejected
     /\ \A u \in AccountIds, old \in PasswordValues, new \in PasswordValues :
          (last'.op \in ChangeOps /\ last'.res = "OK"
             /\ last'.args = <<u, old, new>>)
            => /\ new # old => (login(u, old).res)' # "OK"
               /\ (login(u, new).res)' = "OK"]_vars

\* alice's password has been changed from the one she registered with, and a
\* change with a wrong old password has just been refused.
C20_Witness ==
  /\ last.op \in ChangeOps
  /\ last.res = "INVALID_OLD_PASSWORD"
  /\ \E i \in 1..Len(users) :
       /\ users[i].id = "alice"
       /\ users[i].password = "longpass2"
       /\ last.args[1] = "alice"
       /\ last.args[2] = "longpass1"

\* C21: after the client has left a room for the dashboard (the back arrow
\* keeps activeRoom) and before it enters a chat view again, an event of the
\* change feed changes none of the message lists the client shows.
C21_NoEventAfterLeaving ==
  [][(/\ view = DASHBOARD /\ view' = DASHBOARD
      /\ activeRoom # 0
      /\ last'.events # <<>>)
       => /\ publicMessages' = publicMessages
          /\ privateMessages' = privateMessages
          /\ messages' = messages]_vars

\* C22: when the mock App enters a room (enterRoom, from a create or a join),
\* the list it shows is exactly the stored messages of that room, in the
\* store's order: nothing of the list shown before, nothing that is not stored.
C22_EnterShowsStore ==
  [][(/\ last'.op \in {"handleCreateRoom", "handleJoinRoom"}
      /\ view' = PRIVATE_ROOM
      /\ activeRoom' # 0)
       => privateMessages' = getRoomMessages(rooms'[activeRoom'].id)]_vars

\* What one feed event may do to a list the client shows: an insert leaves it
\* or puts its row at the tail, a delete takes out the rows with its id and
\* keeps the others in their order.
AppliedInOrder(e, before, after) ==
  IF e.type = "INSERT"
  THEN after = before \/ after = Append(before, e.new)
  ELSE IF e.type = "NEW_MESSAGE"
  THEN after = before \/ after = Append(before, e.message)
  ELSE IF e.type = "DELETE"
  THEN after = before \/ after = SelectSeq(before, LAMBDA m : m.id # e.old.id)
  ELSE after = before
         \/ after = SelectSeq(before, LAMBDA m : m.id # e.messageId)

\* C23: a feed event changes the lists the client shows in delivery order
\* only: an applied insert is at the tail whatever its created_at, an applied
\* delete removes the matching rows and keeps the order of the others.
C23_DeliveryOrder ==
  [][last'.events # <<>>
       => /\ AppliedInOrder(last'.events[1], messages, messages')
          /\ AppliedInOrder(last'.events[1], publicMessages, publicMessages')
          /\ AppliedInOrder(last'.events[1], privateMessages, privateMessages')]_vars

\* An insert has been applied behind a row created after it.
C23_Witness ==
  /\ last.op = "feedDelivered"
  /\ last.events[1].type = "INSERT"
  /\ Len(messages) >= 2
  /\ messages[Len(messages)] = last.events[1].new
  /\ messages[Len(messages)].created_at < messages[Len(messages) - 1].created_at

\* The mock App: a DELETE_MESSAGE event delivered in a chat view takes the rows
\* with its id out of the list shown if its roomId is the active scope, and
\* leaves the list shown as it was otherwise.
MockDeleteInScope ==
  \A k \in 1..Len(last'.events) :
    (/\ last'.events[k].type = "DELETE_MESSAGE"
     /\ view \in {PUBLIC_CHAT, PRIVATE_ROOM})
      => IF last'.events[k].roomId = ActiveScope
         THEN LiveView' = SelectSeq(LiveView,
                            LAMBDA m : m.id # last'.events[k].messageId)
         ELSE LiveView' = LiveView

\* The hosted App: a DELETE event delivered in a chat scope takes out the rows
\* of that scope with its id, and no row of another scope.
HostedDeleteInScope ==
  \A k \in 1..Len(last'.events) :
    (/\ last'.events[k].type = "DELETE"
     /\ HostedScope # "none")
      => messages' = SelectSeq(messages,
                       LAMBDA m : \/ m.id # last'.events[k].old.id
                                  \/ m.room_id # HostedScope)

\* C24: a delete event is applied to the Live View if and only if the deleted
\* message is of the active scope: it removes the entry with that id when the
\* message is of the active scope, and changes nothing when it is of another.
C24_DeleteAppliedIffInScope ==
  [][MockDeleteInScope /\ HostedDeleteInScope]_vars

\* C25: a public send whose text begins with the command prefix, in any letter
\* case, is forwarded to the assistant, and the text forwarded is the text
\* after the three characters of the prefix, trimmed.
C25_PromptIsRemainder ==
  [][(/\ last'.op = "handleSendMessage"
      /\ last'.res = "OK"
      /\ view = PUBLIC_CHAT
      /\ Len(Appended.content) >= 3
      /\ toLowerCase(SubSeq(Appended.content, 1, 3)) = <<"/", "a", "i">>)
       => /\ Len(aiCalls') = Len(aiCalls) + 1
          /\ aiCalls'[Len(aiCalls')] =
               trim(SubSeq(Appended.content, 4, Len(Appended.content)))]_vars

\* C26: a send made while a room is shown stores exactly one message, by the
\* sender, with that room's id and not marked as the assistant's, and calls no
\* assistant, whatever its text; and every stored message marked as the
\* assistant's has room_id null.
C26_RoomSendNoAssistant ==
  /\ [](\A i \in 1..Len(allMessages) :
          (allMessages[i].is_ai \/ allMessages[i].user_id = AI_CORE)
            => allMessages[i].room_id = Null)
  /\ [][(/\ last'.op = "handleSendMessage"
         /\ last'.res = "OK"
         /\ view = PRIVATE_ROOM)
          => /\ AppendsOne
             /\ Appended.room_id = rooms[activeRoom].id
             /\ Appended.user_id = user
             /\ ~Appended.is_ai
             /\ aiCalls' = aiCalls
             /\ isAiThinking' = isAiThinking]_vars

\* The assistant command has been sent in a room and stored with the room's
\* id, and no call of the assistant is pending.
C26_Witness ==
  /\ last.op = "handleSendMessage"
  /\ last.res = "OK"
  /\ view = PRIVATE_ROOM
  /\ allMessages[Len(allMessages)].content = AiPingUpper
  /\ allMessages[Len(allMessages)].room_id = "RM-1"
  /\ aiCalls = <<>>

\* C27: a rotation of the key of the room the client is in changes neither the
\* client's view, active room and subscription nor the lists it shows, and a
\* send the client makes in the room, before or after a rotation, is stored
\* with the room's id and announced to the subscribers.
C27_RotationKeepsSession ==
  /\ [][(/\ last'.op = "updateRoomKey"
         /\ view = PRIVATE_ROOM
         /\ activeRoom # 0
         /\ last'.args[1] = rooms[activeRoom].id)
          => /\ view' = view
             /\ user' = user
             /\ activeRoom' = activeRoom
             /\ activeRoomRef' = activeRoomRef
             /\ listeners' = listeners
             /\ publicMessages' = publicMessages
             /\ privateMessages' = privateMessages
             /\ Len(rooms') = Len(rooms)
             /\ rooms'[activeRoom].id = rooms[activeRoom].id]_vars
  /\ [][(/\ last'.op = "handleSendMessage"
         /\ view = PRIVATE_ROOM
         /\ activeRoom # 0
         /\ user # Null)
          => /\ last'.res = "OK"
             /\ AppendsOne
             /\ Appended.room_id = rooms[activeRoom].id
             /\ Appended.user_id = user
             /\ last'.events = <<NewMessageEvent(Appended)>>]_vars

\* alice joined bob's room with the key A, bob has rotated the key to a, and
\* alice has sent a message to the room since.
C27_Witness ==
  /\ last.op = "handleSendMessage"
  /\ last.res = "OK"
  /\ view = PRIVATE_ROOM
  /\ activeRoom # 0
  /\ rooms[activeRoom].creator_id = "bob"
  /\ rooms[activeRoom].key = <<"a">>
  /\ allMessages[Len(allMessages)].room_id = rooms[activeRoom].id
  /\ allMessages[Len(allMessages)].user_id = "alice"

\* C28: a rotation on a room id the registry does not hold fails with
\* ROOM_NOT_FOUND, whoever asks, and leaves the registry as it was: no room is
\* created and no room is changed.
C28_RotationOnUnknownRoom ==
  [][(last'.op = "updateRoomKey" /\ ~RoomExists(last'.args[1]))
       => last'.res = "ROOM_NOT_FOUND" /\ rooms' = rooms]_vars

\* A rotation on an unknown id has been refused while the registry holds a
\* room of the caller.
C28_Witness ==
  /\ last.op = "updateRoomKey"
  /\ last.res = "ROOM_NOT_FOUND"
  /\ last.args[1] = NoSuchRoom
  /\ \E i \in 1..Len(rooms) : rooms[i].creator_id = last.args[2]

\* A text with no character other than the space.
OnlySpaces(s) == \A i \in 1..Len(s) : s[i] = " "

\* C29: a send the handler gives up (its text is empty after trimming, or no
\* user is logged in) stores nothing, calls no assistant and announces no
\* event; and every stored message of an account has a text that is not empty
\* and not only spaces.
C29_EmptySendDoesNothing ==
  /\ [](\A i \in 1..Len(allMessages) :
          allMessages[i].user_id \notin {SYSTEM, AI_CORE}
            => ~OnlySpaces(allMessages[i].content))
  /\ [][(last'.op = "handleSendMessage" /\ last'.res = "RETURN")
          => /\ allMessages' = allMessages
             /\ aiCalls' = aiCalls
             /\ isAiThinking' = isAiThinking
             /\ publicMessages' = publicMessages
             /\ privateMessages' = privateMessages
             /\ last'.events = <<>>]_vars

\* A send has been given up in the Public channel after an earlier one was
\* stored.
C29_Witness ==
  /\ last.op = "handleSendMessage"
  /\ last.res = "RETURN"
  /\ view = PUBLIC_CHAT
  /\ user # Null
  /\ Len(allMessages) >= 2

\* C30: no delete asked by a registered account removes a message authored
\* by SYSTEM or AI_CORE: across every step every such message stays in the
\* store, and a delete naming one does not succeed.
C30_SentinelMessagesStay ==
  [][\A i \in 1..Len(allMessages) :
       allMessages[i].user_id \in {SYSTEM, AI_CORE}
         => /\ \E j \in 1..Len(allMessages') : allMessages'[j] = allMessages[i]
            /\ (last'.op = "deleteMessage"
                  /\ last'.args[1] = allMessages[i].id)
                 => last'.res # "OK"]_vars

\* C31: a room becomes the client's active room only if the logged-in user
\* created it, or the step is a join in which the client supplied the key the
\* room had at that time; and the active room stays one that was so entered.
C31_ActiveRoomAdmitted ==
  [][(view' = PRIVATE_ROOM /\ activeRoom' # 0
        /\ (view # PRIVATE_ROOM \/ activeRoom' # activeRoom))
       => \/ rooms'[activeRoom'].creator_id = user'
          \/ /\ last'.op = "handleJoinRoom"
             /\ last'.args[1] = rooms[activeRoom'].id
             /\ last'.args[2] = rooms[activeRoom'].key]_vars

\* C32: whenever no handleAuth call is in progress the registration guard is
\* off, and a successful login made then moves the client to the dashboard.
C32_GuardResetAfterRegistration ==
  /\ [](authPc = "idle" => ~isProcessingRegistration)
  /\ [][last'.op = "onAuthStateChange"
          => view' = DASHBOARD /\ user' # Null]_vars

\* C33: the Live View never holds two entries with the same message id.
C33_NoDuplicateIds ==
  \A i, j \in 1..Len(messages) :
    i # j => messages[i].id # messages[j].id

\* C34: a message stored by a send of the client carries the scope the client
\* shows when it sends: the id of the active room in the room view, null
\* otherwise; and its author is the logged-in user.
C34_SendCarriesActiveScope ==
  [][(last'.op = "handleSendMessage" /\ last'.res = "OK")
       => /\ AppendsOne
          /\ Appended.user_id = user
          /\ user # Null
          /\ Appended.room_id = IF view = PRIVATE_ROOM
                                THEN rooms[activeRoom].id ELSE Null]_vars

\* alice has sent a message in a room after one in the Public channel.
C34_Witness ==
  /\ last.op = "handleSendMessage"
  /\ last.res = "OK"
  /\ view = PRIVATE_ROOM
  /\ Len(allMessages) >= 2
  /\ allMessages[Len(allMessages)].room_id = rooms[activeRoom].id
  /\ allMessages[Len(allMessages)].user_id = "alice"
  /\ \E i \in 1..Len(allMessages) :
       allMessages[i].user_id = "alice" /\ allMessages[i].room_id = Null

\* C35: in every reachable state the room view has an active room and every
\* view other than AUTH has a user; and a logout ends on the AUTH view with no
\* user.
C35_ViewStateConsistent ==
  /\ [](view = PRIVATE_ROOM => activeRoom # 0)
  /\ [](view \in {DASHBOARD, PUBLIC_CHAT, PRIVATE_ROOM, PROFILE}
          => user # Null)
  /\ [][last'.op = "handleLogout" => view' = AUTH /\ user' = Null]_vars

\* alice has logged out after having been in a room.
C35_Witness ==
  /\ last.op = "handleLogout"
  /\ view = AUTH
  /\ user = Null
  /\ Len(rooms) >= 1
  /\ users # <<>>

\* C36: a delete of an id the store does not hold returns without an error,
\* changes nothing and notifies nobody; a delete event is handed to the
\* listeners only by a delete that removed a message, one event per removal,
\* naming the message removed.
C36_DeleteEventIffRemoval ==
  [][last'.op \in {"deleteMessage", "handleDeleteMessage"}
       => /\ (\A i \in 1..Len(allMessages) :
                allMessages[i].id # last'.args[1])
               => /\ last'.res = "NOT_FOUND"
                  /\ allMessages' = allMessages
                  /\ last'.events = <<>>
                  /\ publicMessages' = publicMessages
                  /\ privateMessages' = privateMessages
          /\ allMessages' = allMessages => last'.events = <<>>
          /\ allMessages' # allMessages
               => /\ Len(allMessages') = Len(allMessages) - 1
                  /\ Len(last'.events) = 1
                  /\ last'.events[1].type = "DELETE_MESSAGE"
                  /\ last'.events[1].messageId = last'.args[1]
                  /\ \E i \in 1..Len(allMessages) :
                       /\ allMessages[i].id = last'.args[1]
                       /\ allMessages' = Splice1(allMessages, i)
                       /\ last'.events[1].roomId = allMessages[i].room_id]_vars

\* A delete of an id the store does not hold has returned, the store holding
\* other messages.
C36_Witness ==
  /\ last.op = "deleteMessage"
  /\ last.res = "NOT_FOUND"
  /\ Len(allMessages) >= 2
  /\ \A i \in 1..Len(allMessages) : allMessages[i].id # last.args[1]

\* C37: no two accounts have ids that are equal ignoring letter case; register
\* with an id that matches an account ignoring case throws USER_ID_TAKEN and
\* leaves the accounts as they were, and otherwise appends the account; login
\* with an id resolves, ignoring case, to the one account that matches it.
C37_CaseInsensitiveUnique ==
  /\ [](\A i, j \in 1..Len(users) :
          i # j => toLowerCaseId(users[i].id) # toLowerCaseId(users[j].id))
  /\ [][last'.op = "register"
          => IF \E i \in 1..Len(users) :
                  toLowerCaseId(users[i].id) = toLowerCaseId(last'.args[1])
             THEN last'.res = "USER_ID_TAKEN" /\ users' = users
             ELSE /\ last'.res = "OK"
                  /\ users' = Append(users, [id |-> last'.args[1],
                                             password |-> last'.args[2]])]_vars
  /\ [](\A u \in AccountIds, pw \in PasswordValues :
          LET matches == {i \in 1..Len(users) :
                            toLowerCaseId(users[i].id) = toLowerCaseId(u)}
          IN  /\ matches = {} <=> login(u, pw).res = "USER_NOT_FOUND"
              /\ login(u, pw).res = "OK"
                   => \E i \in matches :
                        /\ matches = {i}
                        /\ users[i].password = pw
                        /\ login(u, pw).user = users[i].id)

\* alice registers while the account Alice exists beside bob's: the call is
\* rejected, and a login as alice with Alice's password returns Alice.
C37_Witness ==
  /\ last.op = "register"
  /\ last.args[1] = "alice"
  /\ last.res = "USER_ID_TAKEN"
  /\ Len(users) = 2
  /\ users[1].id = "Alice"
  /\ users[2].id = "bob"
  /\ login("alice", users[1].password).res = "OK"
  /\ login("alice", users[1].password).user = "Alice"

\* The places of callback c in a list of callbacks.
Registrations(ls, c) == Cardinality({i \in 1..Len(ls) : ls[i] = c})

\* The functions returned for callback c that have not been called.
LiveSubscriptions(c) ==
  Cardinality({k \in 1..Len(unsubscribes) :
                 unsubscribes[k].callback = c /\ unsubscribes[k].calls = 0})

\* C38: the first call of a function subscribe returned removes one
\* registration of its callback and leaves the registrations of every other
\* callback as they were; a later call of the same function changes nothing;
\* and every event is handed to each callback once for every subscription of
\* it that has not been unsubscribed, so never after its unsubscribe.
C38_UnsubscribeContract ==
  /\ [][last'.op = "unsubscribe"
          => LET k == last'.args[1]
                 c == unsubscribes[k].callback
             IN  /\ \A d \in (Callbacks \cup {"app"}) \ {c} :
                      Registrations(listeners', d) = Registrations(listeners, d)
                 /\ unsubscribes[k].calls = 0
                      => Registrations(listeners', c)
                           = Registrations(listeners, c) - 1
                 /\ unsubscribes[k].calls >= 1 => listeners' = listeners]_vars
  /\ [][\A e \in 1..Len(last'.events) :
          \A c \in Callbacks \cup {"app"} :
            Registrations(last'.calls[e], c) = LiveSubscriptions(c)]_vars
=============================================================================
